---- MODULE Spec2Model ----
(***************************************************************************)
(* Fish-stocking lifecycle engine of biip-zuvinimas-api: the status        *)
(* derivation of utils/functions.ts and the lifecycle handlers of the      *)
(* fishStockings service (register, updateRegistration, review, cancel,    *)
(* updateFishStocking) over the fish_stockings and fish_batches tables.    *)
(*                                                                         *)
(* Time is counted in ticks; a calendar day has DayTicks ticks, the first  *)
(* one being startOfDay and the last one endOfDay (23:59:59.999).          *)
(* A nullable column is <<>> (null) or <<v>> (the value v).                *)
(***************************************************************************)
EXTENDS Integers, Sequences, FiniteSets, TLC

(* ------------------------------ bounds -------------------------------- *)

\* ticks of one calendar day (24 hours)
DayTicks == 3
\* calendar days the clock and the event times of a getStatus call range over
MaxDays == 10
\* maxTimeForRegistration of a getStatus call ranges over -MaxSetting..MaxSetting
MaxSetting == 5
\* longest batch list handed to getStatus
MaxBatchList == 2
\* calendar days the clock of the lifecycle specification runs through
ClockDays == 2
\* rows the fish_stockings table can hold (soft-deleted rows included)
MaxStockings == 1
\* rows the fish_batches table can hold (soft-deleted rows included)
MaxBatchRows == 2
\* the settings durations of the lifecycle specification range over 0..MaxDuration
MaxDuration == 1

MaxTime == DayTicks * MaxDays - 1
Times == 0..MaxTime
SettingRange == (0 - MaxSetting)..MaxSetting

(* --------------------------- nullable values -------------------------- *)

Null == <<>>
Some(v) == <<v>>
Option(S) == {Null} \cup {Some(v) : v \in S}

(* ------------------------------ statuses ------------------------------ *)

UPCOMING == "UPCOMING"
ONGOING == "ONGOING"
NOT_FINISHED == "NOT_FINISHED"
FINISHED == "FINISHED"
INSPECTED == "INSPECTED"
CANCELED == "CANCELED"
FishStockingStatus == {UPCOMING, ONGOING, NOT_FINISHED, FINISHED, INSPECTED, CANCELED}
\* the null that getStatus returns when no branch matches
NoStatus == "null"

(* ------------------------------- state -------------------------------- *)

VARIABLES
  now,       \* the wall clock (new Date()), in ticks
  settings,  \* the single settings row
  fishStockings, \* the fish_stockings table: row id = index
  fishBatches,   \* the fish_batches table: row id = index
  res,       \* the last request: action, event id, outcome, status it read
  arg,       \* the arguments of a direct getStatus call
  ret        \* what that call returned

vars == <<now, settings, fishStockings, fishBatches, res, arg, ret>>
db == <<fishStockings, fishBatches>>

(* ------------------------------ date-fns ------------------------------ *)

startOfDay(t) == (t \div DayTicks) * DayTicks
endOfDay(t) == startOfDay(t) + DayTicks - 1
add(t, days) == t + days * DayTicks
sub(t, days) == t - days * DayTicks
isAfter(a, b) == a > b
isBefore(a, b) == a < b

(* ------------------------------- lodash ------------------------------- *)

\* isEmpty of a nullable array: null, undefined and [] are empty
isEmpty(x) == x = Null \/ Len(x[1]) = 0

(* ------------------------- status derivation -------------------------- *)

isCanceled(fishStocking) == fishStocking.canceledAt # Null

\* variant: a falsy reviewAmount (0 included) counts as not filled
isReviewed_falsy(fishStocking, batches) ==
  LET batchesDataNotFilled ==
        IF batches = Null THEN FALSE
        ELSE \E i \in 1..Len(batches[1]) :
               batches[1][i].reviewAmount \in {Null, Some(0)}
  IN ~batchesDataNotFilled

\* batches is <<>> (undefined) or <<list>>; some() of undefined is undefined
isReviewed(fishStocking, batches) ==
  LET batchesDataNotFilled ==
        IF batches = Null THEN FALSE
        ELSE \E i \in 1..Len(batches[1]) : batches[1][i].reviewAmount = Null
  IN ~batchesDataNotFilled

\* variant: signatures IS NOT NULL, an empty array of signatures included
isInspected_notNull(fishStocking, batches) ==
  LET reviewed == isReviewed(fishStocking, batches)
  IN reviewed /\ fishStocking.signatures # Null

isInspected(fishStocking, batches) ==
  LET reviewed == isReviewed(fishStocking, batches)
  IN reviewed /\ ~isEmpty(fishStocking.signatures)

\* variant: the window ends maxTimeForRegistration days after eventTime to the tick
isOngoing_noEndOfDay(fishStocking, s, today) ==
  LET eventTime == fishStocking.eventTime
      start == startOfDay(eventTime)
      end == add(eventTime, s.maxTimeForRegistration)
  IN isAfter(today, start) /\ isBefore(today, end)

isOngoing(fishStocking, s, today) ==
  LET eventTime == fishStocking.eventTime
      start == startOfDay(eventTime)
      end == endOfDay(add(eventTime, s.maxTimeForRegistration))
  IN isAfter(today, start) /\ isBefore(today, end)

\* variant: upcoming until the end of the day of the event
isUpcoming_untilEnd(fishStocking, today) ==
  LET end == endOfDay(fishStocking.eventTime)
  IN ~isAfter(today, end)

isUpcoming(fishStocking, today) ==
  LET start == startOfDay(fishStocking.eventTime)
  IN isBefore(today, start)

isNotFinished(fishStocking, s, today) ==
  LET eventTime == fishStocking.eventTime
      end == endOfDay(add(eventTime, s.maxTimeForRegistration))
  IN isAfter(today, end)

\* variant: the review branches are tested before the cancellation
getStatus_reviewFirst(fishStocking, batches, s, today) ==
  IF isInspected(fishStocking, batches) THEN INSPECTED
  ELSE IF isReviewed(fishStocking, batches) THEN FINISHED
  ELSE IF isCanceled(fishStocking) THEN CANCELED
  ELSE IF isOngoing(fishStocking, s, today) THEN ONGOING
  ELSE IF isUpcoming(fishStocking, today) THEN UPCOMING
  ELSE IF isNotFinished(fishStocking, s, today) THEN NOT_FINISHED
  ELSE NoStatus

getStatus(fishStocking, batches, s, today) ==
  IF isCanceled(fishStocking) THEN CANCELED
  ELSE IF isInspected(fishStocking, batches) THEN INSPECTED
  ELSE IF isReviewed(fishStocking, batches) THEN FINISHED
  ELSE IF isOngoing(fishStocking, s, today) THEN ONGOING
  ELSE IF isUpcoming(fishStocking, today) THEN UPCOMING
  ELSE IF isNotFinished(fishStocking, s, today) THEN NOT_FINISHED
  ELSE NoStatus

(* --------------- specification of the direct getStatus call ----------- *)

\* getStatus reads maxTimeForRegistration only
StatusSettings ==
  [minTimeTillFishStocking : {1}, maxTimeForRegistration : SettingRange]

\* review amounts: zero and a positive count
ReviewAmounts == {0, 1}

SignatureValues == {Null, Some(<<>>), Some(<<"signature">>)}

BatchLists ==
  UNION {[1..n -> [reviewAmount : Option(ReviewAmounts)]] : n \in 0..MaxBatchList}

StatusArgs ==
  [fishStocking : [eventTime : Times, canceledAt : Option({0}), signatures : SignatureValues],
   batches : Option(BatchLists)]

NoArg == [fishStocking |-> [eventTime |-> 0, canceledAt |-> Null, signatures |-> Null],
          batches |-> Null]

NoRes == [op |-> "none", id |-> 0, err |-> "OK", status |-> NoStatus, eventTime |-> Null]

InitStatus ==
  /\ now \in Times
  /\ settings \in StatusSettings
  /\ arg \in StatusArgs
  /\ ret = "pending"
  /\ fishStockings = <<>>
  /\ fishBatches = <<>>
  /\ res = NoRes

CallGetStatus ==
  /\ ret = "pending"
  /\ ret' = getStatus(arg.fishStocking, arg.batches, settings, now)
  /\ UNCHANGED <<now, settings, arg, fishStockings, fishBatches, res>>

NextStatus == CallGetStatus

SpecStatus == InitStatus /\ [][NextStatus]_vars

(* ---------------- claims about the direct getStatus call -------------- *)

called == ret # "pending"
argCanceled == arg.fishStocking.canceledAt # Null
\* every batch of the list has reviewAmount populated (no list, no batch: vacuous)
argAllReviewed ==
  \/ arg.batches = Null
  \/ \A i \in 1..Len(arg.batches[1]) : arg.batches[1][i].reviewAmount # Null
argSigned ==
  /\ arg.fishStocking.signatures # Null
  /\ arg.fishStocking.signatures[1] # <<>>
\* calendar day of eventTime, and the settings' maxTimeForRegistration
argD == arg.fishStocking.eventTime \div DayTicks
argM == settings.maxTimeForRegistration
firstTickOfDay(d) == d * DayTicks
lastTickOfDay(d) == d * DayTicks + DayTicks - 1

\* C1: whenever the event's canceledAt is set, getStatus returns CANCELED,
\* whatever the signatures, the batches' reviewAmount, eventTime and now are.
C1_CanceledAbsorbing == (called /\ argCanceled) => ret = CANCELED

\* a canceled event that is also fully reviewed and signed, and past its window
C1_Witness ==
  /\ ret = CANCELED
  /\ argSigned
  /\ arg.batches # Null /\ Len(arg.batches[1]) = 2 /\ argAllReviewed
  /\ now > lastTickOfDay(argD + argM)

\* C3 as stated: whenever every batch has reviewAmount populated the status is
\* FINISHED or INSPECTED, for every value of the event's other fields.
C3_Original == (called /\ argAllReviewed) => ret \in {FINISHED, INSPECTED}

\* C3 as amended: whenever every batch has reviewAmount populated (0 included) the
\* status is never UPCOMING, ONGOING, NOT_FINISHED or null; it is FINISHED or
\* INSPECTED unless canceledAt is set, and CANCELED when canceledAt is set.
C3_ReviewCompleteness ==
  (called /\ argAllReviewed) =>
     /\ ret \in {FINISHED, INSPECTED, CANCELED}
     /\ (ret = CANCELED) <=> argCanceled

\* two batches, one of them reviewed with amount 0, inside the registration window
C3_Witness ==
  /\ ret = FINISHED
  /\ arg.batches # Null /\ Len(arg.batches[1]) = 2
  /\ arg.batches[1][1].reviewAmount = Some(0)
  /\ arg.batches[1][2].reviewAmount = Some(1)
  /\ now > firstTickOfDay(argD) /\ now < lastTickOfDay(argD + argM)

\* the reference order of the six statuses, first match wins
RefStatus ==
  CASE argCanceled -> CANCELED
    [] ~argCanceled /\ argAllReviewed /\ argSigned -> INSPECTED
    [] ~argCanceled /\ argAllReviewed /\ ~argSigned -> FINISHED
    [] OTHER ->
         IF now > firstTickOfDay(argD) /\ now < lastTickOfDay(argD + argM) THEN ONGOING
         ELSE IF now < firstTickOfDay(argD) THEN UPCOMING
         ELSE IF now > lastTickOfDay(argD + argM) THEN NOT_FINISHED
         ELSE NoStatus

\* C4: getStatus returns the status of the first matching branch of the order
\* CANCELED, INSPECTED, FINISHED, ONGOING, UPCOMING, NOT_FINISHED; a non-canceled
\* event is INSPECTED iff all its batches are reviewed and signatures is non-empty,
\* FINISHED iff all are reviewed and signatures is empty or absent; an empty or
\* missing batch list counts as fully reviewed.
C4_FirstMatch ==
  called =>
     /\ ret = RefStatus
     /\ ~argCanceled => /\ (ret = INSPECTED) <=> (argAllReviewed /\ argSigned)
                        /\ (ret = FINISHED) <=> (argAllReviewed /\ ~argSigned)
     /\ (~argCanceled /\ (arg.batches = Null \/ arg.batches = Some(<<>>)))
           => ret \in {FINISHED, INSPECTED}

\* no batch list at all and an empty signatures array: FINISHED
C4_Witness ==
  /\ ret = FINISHED
  /\ arg.batches = Null
  /\ arg.fishStocking.signatures = Some(<<>>)

\* the three time windows of a non-canceled, not fully reviewed event
TimeWindows ==
  /\ (ret = UPCOMING) <=> now < firstTickOfDay(argD)
  /\ (ret = ONGOING) <=> (now > firstTickOfDay(argD) /\ now < lastTickOfDay(argD + argM))
  /\ (ret = NOT_FINISHED) <=> now > lastTickOfDay(argD + argM)

\* C5: for a non-canceled, not fully reviewed event and a duration
\* maxTimeForRegistration M >= 0, with D the calendar day of eventTime: the status
\* is UPCOMING exactly when now is before the start of day D, ONGOING exactly
\* when now is after the start of day D and before the end of day D+M,
\* NOT_FINISHED exactly when now is after the end of day D+M; eventTime on day 0
\* and M = 5 give ONGOING on day 3 and NOT_FINISHED on day 9.
C5_TimeWindows ==
  (called /\ ~argCanceled /\ ~argAllReviewed /\ argM >= 0) =>
     /\ TimeWindows
     /\ (argD = 0 /\ argM = 5 /\ now \div DayTicks = 3) => ret = ONGOING
     /\ (argD = 0 /\ argM = 5 /\ now \div DayTicks = 9) => ret = NOT_FINISHED

\* eventTime 2024-03-01 (day 0), M = 5, now = 2024-03-10 (day 9), nothing reviewed
C5_Witness ==
  /\ ret = NOT_FINISHED
  /\ argD = 0 /\ argM = 5 /\ now \div DayTicks = 9
  /\ ~argCanceled /\ ~argAllReviewed


(* ====================== the lifecycle of the service ================== *)

ClockMax == DayTicks * ClockDays - 1
ClockTimes == 0..ClockMax

\* rows of the tenants, fishTypes and fishAges tables
Tenants == {1, 2}
FishTypeRows == {1, 2}
FishAgeRows == {1}

\* ctx.meta of a USER request: the user and the active tenant profile; the
\* requests of these runs come from a freelancer without a tenant profile
Actors ==
  { [user |-> 1, isFreelancer |-> TRUE, profile |-> Null] }

LifeSettings ==
  [minTimeTillFishStocking : 0..MaxDuration, maxTimeForRegistration : 0..MaxDuration]

(* ---------------------------- the two tables -------------------------- *)

StockingIds == 1..Len(fishStockings)
BatchIds == 1..Len(fishBatches)

\* default scope notDeleted
notDeleted(row) == row.deletedAt = Null

\* variant: a session without a profile finds every event without a tenant
profileScope_anyCreator(actor, fs) ==
  IF actor.profile # Null
  THEN fs.tenant = actor.profile \/ fs.stockingCustomer = actor.profile
  ELSE fs.tenant = Null

\* scope profile of a USER request (tenant session, freelancer session)
profileScope(actor, fs) ==
  IF actor.profile # Null
  THEN fs.tenant = actor.profile \/ fs.stockingCustomer = actor.profile
  ELSE fs.createdBy = Some(actor.user) /\ fs.tenant = Null

\* resolveEntities(ctx, {id}) of a USER request finds the row
resolves(actor, id) ==
  /\ id \in StockingIds
  /\ notDeleted(fishStockings[id])
  /\ profileScope(actor, fishStockings[id])

\* fishBatches.find({query: {fishStocking}}): ids of the live fishBatches, in id order
RECURSIVE idsFrom(_, _)
idsFrom(tbl, i) ==
  IF i > Len(tbl) THEN <<>>
  ELSE IF notDeleted(tbl[i]) THEN <<i>> \o idsFrom(tbl, i + 1)
  ELSE idsFrom(tbl, i + 1)

findBatchIds(tbl, fishStockingId) ==
  SelectSeq(idsFrom(tbl, 1), LAMBDA b : tbl[b].fishStocking = fishStockingId)

\* batchesByStocking[fishStocking.id] of the status populate: undefined when the
\* event has no live batch
batchesByStocking(tbl, id) ==
  LET ids == findBatchIds(tbl, id)
  IN IF ids = <<>> THEN Null ELSE Some([i \in 1..Len(ids) |-> tbl[ids[i]]])

\* the populated virtual field status
statusIn(stk, tbl, s, today, id) == getStatus(stk[id], batchesByStocking(tbl, id), s, today)
status(id) == statusIn(fishStockings, fishBatches, settings, now, id)

(* ------------------------------ validators ---------------------------- *)

\* variant: any eventTime that is not in the past passes
isTimeBeforeReview_notPast(time, currentTime, s) ==
  LET timeDiff == time - currentTime
  IN timeDiff >= 0

isTimeBeforeReview(time, currentTime, s) ==
  LET timeDiff == time - currentTime
  IN timeDiff >= DayTicks * s.minTimeTillFishStocking

\* "OK" when validateFishData returns, else the error it throws
validateFishData(bs) ==
  LET fishTypes == {t \in FishTypeRows : \E i \in 1..Len(bs) : bs[i].fishType = t}
      fishAgesIds == {bs[i].fishAge : i \in 1..Len(bs)}
      fishAges == FishAgeRows \cap fishAgesIds
  IN IF Len(bs) # Cardinality(fishTypes) THEN "INVALID_FISH_TYPE"
     ELSE IF Cardinality(fishAgesIds) # Cardinality(fishAges) THEN "INVALID_FISH_AGE"
     ELSE "OK"

\* TRUE when canProfileModifyFishStocking returns without throwing NO_RIGHTS
canProfileModifyFishStocking(actor, fs) ==
  IF actor.profile # Null
  THEN LET tenantUserCanModify == actor.profile = fs.tenant
           stockingCustomerCanModify == actor.profile = fs.stockingCustomer
       IN tenantUserCanModify \/ stockingCustomerCanModify
  ELSE LET isTenantFishStocking == fs.tenant # Null
           canFreelancerModify ==
             actor.isFreelancer /\ ~isTenantFishStocking /\ Some(actor.user) # fs.assignedTo
       IN ~canFreelancerModify

\* variant: the instant itself
toDateString_instant(t) == t

\* new Date().toDateString() stored in the timestamp column canceledAt: the
\* current date, the time of day is dropped
toDateString(t) == startOfDay(t)

\* variant: every field is overwritten with what the request carries
patch_replace(old, param) == param

\* updateEntity writes the fields that the request carries and keeps the others
patch(old, param) == IF param = Null THEN old ELSE param

(* ------------------------------ responses ----------------------------- *)

Response(op, id, err, st, eventTime) ==
  [op |-> op, id |-> id, err |-> err, status |-> st, eventTime |-> eventTime]

\* the request is rejected with err before any write
Reject(op, id, err, st, eventTime) ==
  /\ res' = Response(op, id, err, st, eventTime)
  /\ UNCHANGED <<now, settings, fishStockings, fishBatches, arg, ret>>

(* ------------------------------- register ----------------------------- *)

\* an event is planned for the second tick of a day of the clock
EventTimes == {d * DayTicks + 1 : d \in 0..(ClockDays - 1)}

\* batch lists of a register request: fishType 3 and fishAge 2 do not exist
RegisterBatchLists ==
  { <<[fishType |-> 1, fishAge |-> 1, amount |-> 1]>>,
    <<[fishType |-> 1, fishAge |-> 1, amount |-> 1],
      [fishType |-> 2, fishAge |-> 1, amount |-> 1]>>,
    <<[fishType |-> 3, fishAge |-> 1, amount |-> 1]>>,
    <<[fishType |-> 1, fishAge |-> 2, amount |-> 1]>> }

RegisterParams ==
  [eventTime : EventTimes, batches : RegisterBatchLists, stockingCustomer : {Null}]

\* fishBatches.createBatches: one new row per batch of the request
createBatches(tbl, bs, fishStockingId) ==
  tbl \o [i \in 1..Len(bs) |->
            [fishStocking |-> fishStockingId, fishType |-> bs[i].fishType,
             fishAge |-> bs[i].fishAge, amount |-> bs[i].amount,
             reviewAmount |-> Null, deletedAt |-> Null]]

register(actor, p) ==
  LET timeBeforeReview == isTimeBeforeReview(p.eventTime, now, settings)
      fishData == validateFishData(p.batches)
      \* validateAssignedTo: a freelancer is assigned to their own event
      assignedTo == actor.user
      id == Len(fishStockings) + 1
      fishStocking ==
        [eventTime |-> p.eventTime, canceledAt |-> Null, signatures |-> Null,
         tenant |-> actor.profile, stockingCustomer |-> p.stockingCustomer,
         assignedTo |-> Some(assignedTo), createdBy |-> Some(actor.user),
         reviewedBy |-> Null, reviewTime |-> Null, deletedAt |-> Null]
  IN IF ~timeBeforeReview
     THEN Reject("register", 0, "INVALID_EVENT_TIME", NoStatus, Some(p.eventTime))
     ELSE IF fishData # "OK"
     THEN Reject("register", 0, fishData, NoStatus, Some(p.eventTime))
     ELSE /\ Len(fishStockings) < MaxStockings
          /\ Len(fishBatches) + Len(p.batches) <= MaxBatchRows
          /\ fishStockings' = Append(fishStockings, fishStocking)
          /\ fishBatches' = createBatches(fishBatches, p.batches, id)
          /\ res' = Response("register", id, "OK",
                             statusIn(fishStockings', fishBatches', settings, now, id),
                             Some(p.eventTime))
          /\ UNCHANGED <<now, settings, arg, ret>>

(* ------------------------ batch reconciliation ------------------------ *)

\* a batch of a request: a field that the request does not carry is Null
Batch(id, fishType, fishAge, amount, reviewAmount) ==
  [id |-> id, fishType |-> fishType, fishAge |-> fishAge, amount |-> amount,
   reviewAmount |-> reviewAmount]

\* deletedAt is only ever tested for null (scope notDeleted): the model keeps the
\* fact that the row was removed and not the instant
Removed == Some("removed")

\* removeEntity: the row stays in the table with deletedAt set
removeEntity(tbl, id, today) == [tbl EXCEPT ![id].deletedAt = Removed]

RECURSIVE removeAll(_, _, _)
removeAll(tbl, ids, today) ==
  IF ids = <<>> THEN tbl
  ELSE removeAll(removeEntity(tbl, Head(ids), today), Tail(ids), today)

\* variant: every existing batch of the event is deleted, named or not
deleteExistingBatches_all(tbl, fishStockingId, bs, today) ==
  removeAll(tbl, findBatchIds(tbl, fishStockingId), today)

\* bs is Null (the request has no batches) or Some(list)
deleteExistingBatches(tbl, fishStockingId, bs, today) ==
  LET existingBatches == findBatchIds(tbl, fishStockingId)
      found(existingBatch) ==
        /\ bs # Null
        /\ \E i \in 1..Len(bs[1]) : bs[1][i].id # Null /\ existingBatch = bs[1][i].id[1]
      deleteBatches == SelectSeq(existingBatches, LAMBDA e : ~found(e))
  IN removeAll(tbl, deleteBatches, today)

\* updateEntity(ctx, batch) finds the row (scope notDeleted)
batchResolves(tbl, id) == id \in 1..Len(tbl) /\ notDeleted(tbl[id])

\* createEntity validates the required fields of a new row
batchCreatable(b) == b.fishType # Null /\ b.fishAge # Null /\ b.amount # Null

\* variant: the update of a row drops the review amount of the request
updateBatchRow_noReview(row, b) ==
  [row EXCEPT
     !.fishType = IF b.fishType = Null THEN @ ELSE b.fishType[1],
     !.fishAge = IF b.fishAge = Null THEN @ ELSE b.fishAge[1],
     !.amount = IF b.amount = Null THEN @ ELSE b.amount[1]]

updateBatchRow(row, b) ==
  [row EXCEPT
     !.fishType = IF b.fishType = Null THEN @ ELSE b.fishType[1],
     !.fishAge = IF b.fishAge = Null THEN @ ELSE b.fishAge[1],
     !.amount = IF b.amount = Null THEN @ ELSE b.amount[1],
     !.reviewAmount = IF b.reviewAmount = Null THEN @ ELSE b.reviewAmount]

createBatchRow(b, fishStocking) ==
  [fishStocking |-> fishStocking, fishType |-> b.fishType[1], fishAge |-> b.fishAge[1],
   amount |-> b.amount[1], reviewAmount |-> b.reviewAmount, deletedAt |-> Null]

\* the promises of createOrUpdateBatches are all issued; one that rejects does
\* not stop the others
RECURSIVE applyBatches(_, _, _)
applyBatches(tbl, fishStocking, list) ==
  IF list = <<>> THEN tbl
  ELSE LET batch == Head(list)
           next ==
             IF batch.id # Null
             THEN IF batchResolves(tbl, batch.id[1])
                  THEN [tbl EXCEPT ![batch.id[1]] = updateBatchRow(@, batch)]
                  ELSE tbl
             ELSE IF batchCreatable(batch)
                  THEN Append(tbl, createBatchRow(batch, fishStocking))
                  ELSE tbl
       IN applyBatches(next, fishStocking, Tail(list))

createOrUpdateBatches(tbl, fishStocking, bs) ==
  IF bs = Null THEN tbl ELSE applyBatches(tbl, fishStocking, bs[1])

\* what await Promise.all(promises) throws: undefined is not iterable, a row to
\* update is not found, a row to create is not valid
createOrUpdateError(tbl, bs) ==
  IF bs = Null THEN "TYPE_ERROR"
  ELSE IF \E i \in 1..Len(bs[1]) : bs[1][i].id # Null /\ ~batchResolves(tbl, bs[1][i].id[1])
  THEN "ENTITY_NOT_FOUND"
  ELSE IF \E i \in 1..Len(bs[1]) : bs[1][i].id = Null /\ ~batchCreatable(bs[1][i])
  THEN "VALIDATION_ERROR"
  ELSE "OK"

\* updateBatches, updateRegisteredBatches and reviewBatches have the same body
updateBatches(tbl, fishStocking, bs, today) ==
  createOrUpdateBatches(deleteExistingBatches(tbl, fishStocking, bs, today), fishStocking, bs)

updateBatchesError(tbl, fishStocking, bs, today) ==
  createOrUpdateError(deleteExistingBatches(tbl, fishStocking, bs, today), bs)

\* rows a request creates, and the ids it names
creates(bs) == IF bs = Null THEN 0 ELSE Len(SelectSeq(bs[1], LAMBDA b : b.id = Null))
namedIds(bs) == IF bs = Null THEN {} ELSE {bs[1][i].id[1] : i \in {j \in 1..Len(bs[1]) : bs[1][j].id # Null}}

\* the requests the model issues fit the table, and none names the id of a row
\* that the same request is about to create
fits(bs) ==
  /\ Len(fishBatches) + creates(bs) <= MaxBatchRows
  /\ creates(bs) > 0 => \A b \in namedIds(bs) : b <= Len(fishBatches)

(* -------------------------------- cancel ------------------------------ *)

\* variant: a finished event can be canceled too
cancelPermitted_finished(st) == st \in {UPCOMING, ONGOING, NOT_FINISHED, FINISHED}

\* the statuses in which cancel goes on
cancelPermitted(st) == ~(st # UPCOMING /\ st # ONGOING /\ st # NOT_FINISHED)

cancel(actor, id) ==
  IF ~resolves(actor, id)
  THEN Reject("cancel", id, "INVALID_ID", NoStatus, Null)
  ELSE IF ~canProfileModifyFishStocking(actor, fishStockings[id])
  THEN Reject("cancel", id, "NO_RIGHTS", status(id), Null)
  ELSE IF ~cancelPermitted(status(id))
  THEN Reject("cancel", id, "INVALID_STATUS", status(id), Null)
  ELSE /\ IF status(id) = UPCOMING
          THEN fishStockings' = removeEntity(fishStockings, id, now)
          ELSE fishStockings' = [fishStockings EXCEPT ![id].canceledAt = Some(toDateString(now))]
       /\ res' = Response("cancel", id, "OK", status(id), Null)
       /\ UNCHANGED <<now, settings, fishBatches, arg, ret>>

(* -------------------------------- review ------------------------------ *)

\* review requests name batches by id and give each a positive reviewAmount
ReviewBatch(id) == Batch(Some(id), Null, Null, Null, Some(1))
ReviewBatchLists ==
  { <<ReviewBatch(b)>> : b \in 1..MaxBatchRows }
    \cup { <<ReviewBatch(b), ReviewBatch(b + 1)>> : b \in 1..(MaxBatchRows - 1) }

ReviewParams == [batches : ReviewBatchLists, signatures : {Null, Some(<<"signature">>)}]

\* variant: the review stamps the time and not the reviewer
stampReview_timeOnly(row, user, today) == [row EXCEPT !.reviewTime = Some(today)]

\* updateEntity(ctx, {...ctx.params, reviewedBy, reviewTime}): the two stamps
stampReview(row, user, today) ==
  [row EXCEPT !.reviewedBy = Some(user), !.reviewTime = Some(today)]

\* variant: a review may come in after the window has closed
reviewPermitted_late(st) == st \in {ONGOING, NOT_FINISHED}

\* the statuses in which review goes on
reviewPermitted(st) == ~(st # ONGOING)

review(actor, id, p) ==
  IF ~resolves(actor, id)
  THEN Reject("review", id, "INVALID_ID", NoStatus, Null)
  ELSE IF ~canProfileModifyFishStocking(actor, fishStockings[id])
  THEN Reject("review", id, "NO_RIGHTS", status(id), Null)
  ELSE IF ~reviewPermitted(status(id))
  THEN Reject("review", id, "INVALID_STATUS", status(id), Null)
  ELSE LET err == updateBatchesError(fishBatches, id, Some(p.batches), now)
       IN /\ fishBatches' = updateBatches(fishBatches, id, Some(p.batches), now)
          /\ fishStockings' =
               IF err # "OK" THEN fishStockings
               ELSE [fishStockings EXCEPT
                       ![id] = stampReview([@ EXCEPT !.signatures = patch(@, p.signatures)],
                                           actor.user, now)]
          /\ res' = Response("review", id, err, status(id), Null)
          /\ UNCHANGED <<now, settings, arg, ret>>

(* -------------------------- updateRegistration ------------------------ *)

\* batches of an updateRegistration request: a kept batch, a new batch
KeepBatch(id) == Batch(Some(id), Some(1), Some(1), Some(1), Null)
NewBatch(fishType) == Batch(Null, Some(fishType), Some(1), Some(1), Null)
UpdateBatchLists == { <<KeepBatch(1)>>, <<NewBatch(2)>> }

UpdateRegistrationParams ==
  [eventTime : EventTimes, assignedTo : {Null, Some(2)},
   batches : Option(UpdateBatchLists), stockingCustomer : {Null}]

\* the batches of the request as validateFishData reads them
fishDataOf(list) == [i \in 1..Len(list) |-> [fishType |-> list[i].fishType[1],
                                             fishAge |-> list[i].fishAge[1]]]

\* validateAssignedTo: "OK" or the error it throws. tenantUsers.find answers
\* with an array, which is never falsy, so every assignedTo of a tenant request
\* passes
validateAssignedTo(actor, p) ==
  IF actor.profile # Null
  THEN IF p.assignedTo # Null THEN "OK" ELSE "ASSIGNED_TO_NOT_DEFINED"
  ELSE "OK"

\* ctx.params.assignedTo after validateAssignedTo
assignedToAfterValidation(actor, p) ==
  IF actor.profile # Null THEN p.assignedTo ELSE Some(actor.user)

\* variant: the registration can be updated after the window has closed
updateRegistrationPermitted_late(st) == st \in {UPCOMING, ONGOING, NOT_FINISHED}

\* the statuses in which updateRegistration goes on
updateRegistrationPermitted(st) == st \in {UPCOMING, ONGOING}

updateRegistration(actor, id, p) ==
  IF ~resolves(actor, id)
  THEN Reject("updateRegistration", id, "INVALID_ID", NoStatus, Null)
  ELSE IF ~updateRegistrationPermitted(status(id))
  THEN Reject("updateRegistration", id, "INVALID_STATUS", status(id), Null)
  ELSE IF ~canProfileModifyFishStocking(actor, fishStockings[id])
  THEN Reject("updateRegistration", id, "NO_RIGHTS", status(id), Null)
  ELSE
    LET existingFishStocking == fishStockings[id]
        assignedToChanged ==
          p.assignedTo # Null /\ p.assignedTo # existingFishStocking.assignedTo
        assignedTo == assignedToAfterValidation(actor, p)
    IN IF validateAssignedTo(actor, p) # "OK"
       THEN Reject("updateRegistration", id, validateAssignedTo(actor, p), status(id), Null)
       ELSE IF status(id) = ONGOING
       THEN \* updateEntity(ctx, {assignedTo}) is called without the id of the row
            IF assignedToChanged
            THEN Reject("updateRegistration", id, "MISSING_ID", status(id), Null)
            ELSE Reject("updateRegistration", id, "OK", status(id), Null)
       ELSE \* UPCOMING
         IF ~isTimeBeforeReview(p.eventTime, now, settings)
         THEN Reject("updateRegistration", id, "INVALID_EVENT_TIME", status(id), Null)
         ELSE IF p.batches # Null /\ validateFishData(fishDataOf(p.batches[1])) # "OK"
         THEN Reject("updateRegistration", id, validateFishData(fishDataOf(p.batches[1])),
                     status(id), Null)
         ELSE /\ fits(p.batches)
              /\ fishStockings' =
                   [fishStockings EXCEPT
                      ![id].eventTime = p.eventTime,
                      ![id].assignedTo = assignedTo,
                      ![id].stockingCustomer = patch(@, p.stockingCustomer)]
              /\ fishBatches' = updateBatches(fishBatches, id, p.batches, now)
              /\ res' = Response("updateRegistration", id,
                                 updateBatchesError(fishBatches, id, p.batches, now),
                                 status(id), Null)
              /\ UNCHANGED <<now, settings, arg, ret>>

(* -------------------------- updateFishStocking ------------------------ *)

\* rows of the users table that are freelancers, members of the tenants
Freelancers == {1, 3}
TenantUsers == {[tenant |-> 1, user |-> 2], [tenant |-> 2, user |-> 4]}

\* batches of an admin request: a batch with its review amount, a new batch
ReviewedBatch(id) == Batch(Some(id), Some(1), Some(1), Some(1), Some(1))
AdminBatchLists ==
  { <<ReviewedBatch(1)>>, <<ReviewedBatch(1), ReviewedBatch(2)>>, <<NewBatch(3)>> }

NoAdminParams ==
  [eventTime |-> Null, batches |-> Null, signatures |-> Null, canceledAt |-> Null,
   assignedTo |-> Null]

\* a request of the administrator changes one thing
AdminParams ==
  {NoAdminParams}
    \cup {[NoAdminParams EXCEPT !.eventTime = Some(t)] : t \in EventTimes}
    \cup {[NoAdminParams EXCEPT !.batches = Some(l)] : l \in AdminBatchLists}
    \cup {[NoAdminParams EXCEPT !.signatures = Some(x)] : x \in {<<>>, <<"signature">>}}
    \cup {[NoAdminParams EXCEPT !.canceledAt = Some(t)] : t \in {0, ClockMax}}
    \cup {[NoAdminParams EXCEPT !.assignedTo = Some(3)]}

\* the administrator's municipalities cover every event: scope notDeleted only
adminResolves(id) == id \in StockingIds /\ notDeleted(fishStockings[id])

\* validation of assignedTo by the administrator
adminAssignedToValid(fs, assignedTo) ==
  IF fs.tenant # Null
  THEN [tenant |-> fs.tenant[1], user |-> assignedTo] \in TenantUsers
  ELSE assignedTo \in Freelancers

updateFishStocking(id, p) ==
  LET st == IF adminResolves(id) THEN status(id) ELSE NoStatus
      fishData == IF p.batches = Null THEN "OK"
                  ELSE validateFishData(fishDataOf(p.batches[1]))
  IN
  IF fishData # "OK"
  THEN Reject("updateFishStocking", id, fishData, st, Null)
  ELSE IF ~adminResolves(id)
  THEN \* existingFishStocking is undefined
       IF p.assignedTo # Null \/ (p.canceledAt # Null /\ p.eventTime = Null)
       THEN Reject("updateFishStocking", id, "TYPE_ERROR", st, Null)
       ELSE /\ fits(p.batches)
            /\ fishBatches' =
                 IF p.batches = Null THEN fishBatches
                 ELSE updateBatches(fishBatches, id, p.batches, now)
            /\ res' = Response("updateFishStocking", id,
                   IF p.batches # Null /\ updateBatchesError(fishBatches, id, p.batches, now) # "OK"
                   THEN updateBatchesError(fishBatches, id, p.batches, now)
                   ELSE "ENTITY_NOT_FOUND", st, Null)
            /\ UNCHANGED <<now, settings, fishStockings, arg, ret>>
  ELSE
    LET existingFishStocking == fishStockings[id]
        eventTime == IF p.eventTime # Null THEN p.eventTime[1]
                     ELSE existingFishStocking.eventTime
        batchesError == IF p.batches = Null THEN "OK"
                        ELSE updateBatchesError(fishBatches, id, p.batches, now)
    IN IF p.assignedTo # Null /\ ~adminAssignedToValid(existingFishStocking, p.assignedTo[1])
       THEN Reject("updateFishStocking", id, "INVALID_ASSIGNED_TO", st, Null)
       ELSE IF p.canceledAt # Null /\ eventTime - p.canceledAt[1] <= 0
       THEN Reject("updateFishStocking", id, "INVALID_CANCELED_AT", st, Null)
       ELSE /\ fits(p.batches)
            /\ fishBatches' =
                 IF p.batches = Null THEN fishBatches
                 ELSE updateBatches(fishBatches, id, p.batches, now)
            /\ fishStockings' =
                 IF batchesError # "OK" THEN fishStockings
                 ELSE [fishStockings EXCEPT
                         ![id].eventTime = eventTime,
                         ![id].signatures = patch(@, p.signatures),
                         ![id].canceledAt = patch(@, p.canceledAt),
                         ![id].assignedTo = patch(@, p.assignedTo)]
            /\ res' = Response("updateFishStocking", id, batchesError, st, Null)
            /\ UNCHANGED <<now, settings, arg, ret>>

(* ------------------------- clock and settings ------------------------- *)

Tick ==
  /\ now < ClockMax
  /\ now' = now + 1
  /\ res' = Response("tick", 0, "OK", NoStatus, Null)
  /\ UNCHANGED <<settings, fishStockings, fishBatches, arg, ret>>

updateSettings(params) ==
  /\ settings' = params
  /\ res' = Response("updateSettings", 0, "OK", NoStatus, Null)
  /\ UNCHANGED <<now, fishStockings, fishBatches, arg, ret>>

(* ----------------------------- specification -------------------------- *)

NoResponse == Response("none", 0, "OK", NoStatus, Null)

Init ==
  /\ now = 0
  /\ settings \in LifeSettings
  /\ fishStockings = <<>>
  /\ fishBatches = <<>>
  /\ res = NoResponse
  /\ arg = NoArg
  /\ ret = "pending"

Next ==
  \/ \E actor \in Actors, p \in RegisterParams : register(actor, p)
  \/ \E actor \in Actors, id \in 1..MaxStockings : cancel(actor, id)
  \/ \E actor \in Actors, id \in 1..MaxStockings, p \in ReviewParams : review(actor, id, p)
  \/ \E actor \in Actors, id \in 1..MaxStockings, p \in UpdateRegistrationParams :
        updateRegistration(actor, id, p)
  \/ \E id \in 1..MaxStockings, p \in AdminParams : updateFishStocking(id, p)
  \/ Tick
  \/ \E params \in LifeSettings : updateSettings(params)

Spec == Init /\ [][Next]_vars

(* ----------------------- claims about the lifecycle ------------------- *)

\* the status of event id after the step
statusAfter(id) == statusIn(fishStockings', fishBatches', settings', now', id)

\* the last request passed the lookup of the event and the check of the rights
passedAuth(r) == r.err \notin {"INVALID_ID", "NO_RIGHTS"}

\* C2: every event created via register, still stored, has one of the six
\* statuses at every instant, the start of eventTime's day and the end of the day
\* maxTimeForRegistration days later included, for non-negative durations.
C2_StatusTotality ==
  \A id \in StockingIds :
     (/\ notDeleted(fishStockings[id])
      /\ settings.minTimeTillFishStocking >= 0
      /\ settings.maxTimeForRegistration >= 0)
        => status(id) \in FishStockingStatus

\* C6: a review of an event whose status is not ONGOING (UPCOMING, NOT_FINISHED,
\* FINISHED, INSPECTED, CANCELED), by an actor who may modify the event, fails with
\* INVALID_STATUS, and a review that fails on the lookup, the rights or the status
\* changes neither the event nor any batch; a review that goes on read ONGOING.
C6_ReviewOnlyOngoing ==
  [][res'.op = "review" =>
       /\ (passedAuth(res') /\ res'.status # ONGOING) => res'.err = "INVALID_STATUS"
       /\ res'.err = "OK" => res'.status = ONGOING
       /\ res'.err \in {"INVALID_ID", "NO_RIGHTS", "INVALID_STATUS"} => UNCHANGED db]_vars

\* an event that was reviewed already is reviewed again
C6_Witness ==
  /\ res.op = "review"
  /\ res.err = "INVALID_STATUS"
  /\ res.status = FINISHED
  /\ status(res.id) = FINISHED

\* C7: a cancel succeeds only when the status is UPCOMING, ONGOING or
\* NOT_FINISHED; a cancel of a FINISHED, INSPECTED or CANCELED event by an actor
\* who may modify it fails with INVALID_STATUS, and leaves the event (canceledAt
\* included) and the batches as they were.
C7_CancelOnlyOpen ==
  [][res'.op = "cancel" =>
       /\ res'.err = "OK" => res'.status \in {UPCOMING, ONGOING, NOT_FINISHED}
       /\ (passedAuth(res') /\ res'.status \in {FINISHED, INSPECTED, CANCELED})
             => res'.err = "INVALID_STATUS"
       /\ res'.err # "OK" => UNCHANGED db]_vars

\* a canceled event is canceled again
C7_Witness ==
  /\ res.op = "cancel"
  /\ res.err = "INVALID_STATUS"
  /\ res.status = CANCELED
  /\ fishStockings[res.id].canceledAt # Null

\* what a successful cancel does when it stamps canceledAt with stamp
CancelEffect(stamp) ==
  (res'.op = "cancel" /\ res'.err = "OK") =>
     LET id == res'.id
     IN /\ fishBatches' = fishBatches
        /\ IF res'.status = UPCOMING
           THEN /\ ~notDeleted(fishStockings'[id])
                /\ \A actor \in Actors :
                      ~(notDeleted(fishStockings'[id]) /\ profileScope(actor, fishStockings'[id]))
                /\ fishStockings'[id].canceledAt = Null
           ELSE /\ res'.status \in {ONGOING, NOT_FINISHED}
                /\ notDeleted(fishStockings'[id])
                /\ fishStockings' = [fishStockings EXCEPT ![id].canceledAt = Some(stamp)]
                /\ statusAfter(id) = CANCELED

\* C8 as stated: a successful cancel of an UPCOMING event removes it (not
\* retrievable, canceledAt not stamped); of an ONGOING or NOT_FINISHED event it
\* keeps the event, stamps canceledAt with the current time, makes the status
\* CANCELED and changes no other field.
C8_Original == [][CancelEffect(now)]_vars

\* C8 as amended: the same, but canceledAt is stamped with the current date, the
\* start of the current day, and not with the instant of the request.
C8_CancelEffect == [][CancelEffect(startOfDay(now))]_vars

\* an event canceled after its window, in the course of a day
C8_Witness ==
  /\ res.op = "cancel"
  /\ res.err = "OK"
  /\ res.status = NOT_FINISHED
  /\ fishStockings[res.id].canceledAt = Some(startOfDay(now))
  /\ startOfDay(now) < now
  /\ status(res.id) = CANCELED

\* C9: an event whose status is CANCELED, as long as it is stored, is CANCELED
\* after every updateRegistration, review, cancel, updateFishStocking, after every
\* tick of the clock and every change of the settings.
C9_CanceledForever ==
  [][\A id \in StockingIds :
        (notDeleted(fishStockings[id]) /\ status(id) = CANCELED)
           => /\ id \in 1..Len(fishStockings')
              /\ notDeleted(fishStockings'[id])
              /\ statusAfter(id) = CANCELED]_vars

\* the administrator has updated a canceled event, which is signed and whose
\* batches are all reviewed
C9_Witness ==
  /\ res.op = "updateFishStocking"
  /\ res.err = "OK"
  /\ res.status = CANCELED
  /\ status(res.id) = CANCELED
  /\ isInspected(fishStockings[res.id], batchesByStocking(fishBatches, res.id))

\* now is less than minTimeTillFishStocking days of 24 hours before eventTime
tooLate(eventTime, s) == eventTime - now < DayTicks * s.minTimeTillFishStocking

\* C10: a register whose eventTime is less than minTimeTillFishStocking days of
\* 24 hours after now is rejected with INVALID_EVENT_TIME and creates no event
\* and no batch; minTimeTillFishStocking = 2 and an eventTime one day after now
\* are rejected.
C10_RegisterTooLate ==
  [][/\ (res'.op = "register" /\ tooLate(res'.eventTime[1], settings))
          => /\ res'.err = "INVALID_EVENT_TIME"
             /\ UNCHANGED db
     /\ ~isTimeBeforeReview(now + DayTicks, now,
           [minTimeTillFishStocking |-> 2, maxTimeForRegistration |-> settings.maxTimeForRegistration])
    ]_vars

\* an eventTime in the future, but less than a day ahead, with a lead time of a day
C10_Witness ==
  /\ res.op = "register"
  /\ res.err = "INVALID_EVENT_TIME"
  /\ settings.minTimeTillFishStocking = 1
  /\ res.eventTime[1] > now
  /\ fishStockings = <<>>

\* C11: right after a successful register the status of the new event is
\* UPCOMING, or ONGOING when eventTime is on the current calendar day; it is not
\* NOT_FINISHED, FINISHED, INSPECTED, CANCELED or null, for lead times >= 0.
C11_AfterRegister ==
  (res.op = "register" /\ res.err = "OK" /\ settings.minTimeTillFishStocking >= 0) =>
     \/ res.status = UPCOMING
     \/ /\ res.status = ONGOING
        /\ startOfDay(res.eventTime[1]) = startOfDay(now)

\* C12: an updateRegistration goes on only when the status is UPCOMING or ONGOING;
\* on an event that the actor can look up and whose status is NOT_FINISHED,
\* FINISHED, INSPECTED or CANCELED it fails with INVALID_STATUS and changes
\* neither the event nor its batches.
C12_UpdateOnlyOpen ==
  [][res'.op = "updateRegistration" =>
       /\ res'.err = "OK" => res'.status \in {UPCOMING, ONGOING}
       /\ (res'.err # "INVALID_ID" /\ res'.status \notin {UPCOMING, ONGOING})
             => (res'.err = "INVALID_STATUS" /\ UNCHANGED db)
       /\ res'.err = "INVALID_STATUS" => UNCHANGED db]_vars

\* the window of the event has closed and its registration is updated
C12_Witness ==
  /\ res.op = "updateRegistration"
  /\ res.err = "INVALID_STATUS"
  /\ res.status = NOT_FINISHED
  /\ status(res.id) = NOT_FINISHED

\* the request carries an eventTime other than the event's, or a batch to create
changesOtherFields(p, id) ==
  \/ p.eventTime # fishStockings[id].eventTime
  \/ creates(p.batches) > 0

\* C13: an updateRegistration of an ONGOING event changes at most assignedTo
\* (not eventTime, the stocking customer or any batch), and a request that
\* changes another field fails instead of reporting success.
C13_OngoingFrame ==
  [][\A actor \in Actors, id \in StockingIds, p \in UpdateRegistrationParams :
        (updateRegistration(actor, id, p) /\ resolves(actor, id) /\ status(id) = ONGOING)
           => /\ fishBatches' = fishBatches
              /\ fishStockings' =
                   [fishStockings EXCEPT ![id].assignedTo = fishStockings'[id].assignedTo]
              /\ changesOtherFields(p, id) => res'.err # "OK"]_vars

\* C14: reviewTime is set iff reviewedBy is set; a successful review leaves the
\* batches reconciled and reviewedBy = the acting user, reviewTime = now; every
\* other step leaves the two stamps of every event as they were.
C14_ReviewStamp ==
  [][/\ \A id \in 1..Len(fishStockings') :
           (fishStockings'[id].reviewTime = Null) <=> (fishStockings'[id].reviewedBy = Null)
     /\ \A actor \in Actors, id \in StockingIds, p \in ReviewParams :
           (res'.op = "review" /\ res'.err = "OK" /\ review(actor, id, p))
              => /\ fishStockings'[id].reviewedBy = Some(actor.user)
                 /\ fishStockings'[id].reviewTime = Some(now)
                 /\ fishBatches' = updateBatches(fishBatches, id, Some(p.batches), now)
                 /\ updateBatchesError(fishBatches, id, Some(p.batches), now) = "OK"
     /\ ~(res'.op = "review" /\ res'.err = "OK")
           => \A id \in StockingIds :
                 /\ fishStockings'[id].reviewTime = fishStockings[id].reviewTime
                 /\ fishStockings'[id].reviewedBy = fishStockings[id].reviewedBy
    ]_vars

\* an event reviewed in the course of a day by the user it is assigned to
C14_Witness ==
  /\ res.op = "review"
  /\ res.err = "OK"
  /\ fishStockings[res.id].reviewedBy = Some(1)
  /\ fishStockings[res.id].reviewTime = Some(now)
  /\ startOfDay(now) < now
  /\ status(res.id) \in {FINISHED, INSPECTED}

\* C19: an actor who can look up the event but may not modify it gets NO_RIGHTS
\* from cancel, review and updateRegistration, whatever the status of the event.
C19_RightsFirst ==
  [][\A actor \in Actors, id \in StockingIds :
        (/\ resolves(actor, id)
         /\ ~canProfileModifyFishStocking(actor, fishStockings[id])
         /\ status(id) \in FishStockingStatus)
           => /\ cancel(actor, id) => res'.err = "NO_RIGHTS"
              /\ \A p \in ReviewParams : review(actor, id, p) => res'.err = "NO_RIGHTS"
              /\ \A p \in UpdateRegistrationParams :
                    updateRegistration(actor, id, p) => res'.err = "NO_RIGHTS"]_vars

(* ===================== batch reconciliation, on its own ================ *)

\* rows of the fish_batches table in these runs
MaxReconcileRows == 3

\* two registered events, each with the batch its registration created
ReconcileEvents == {1, 2}

\* entries of a desired list. With an id: the entry of a registration update
\* (fishType, fishAge, amount) or of a review (amount, reviewAmount). Without an
\* id: a new batch, with the fields a new row needs or without them
ReconcileEntries ==
  { Batch(Some(id), Some(1), Some(1), Some(1), Null) : id \in 1..3 }
    \cup { Batch(Some(id), Null, Null, Some(1), Some(1)) : id \in 1..3 }
    \cup { Batch(Null, Some(1), Some(1), Some(1), Null),
           Batch(Null, Null, Null, Some(1), Some(1)) }

\* the desired lists: no list at all, or up to MaxBatchList entries that name
\* different rows
ReconcileLists ==
  {Null} \cup {Some(<<>>)} \cup {Some(<<b>>) : b \in ReconcileEntries}
    \cup {Some(<<pair[1], pair[2]>>) :
            pair \in {q \in ReconcileEntries \X ReconcileEntries :
                        q[2].id = Null \/ q[2].id # q[1].id}}

\* the ids of the live batches of an event
liveIds(tbl, fishStockingId) ==
  {i \in 1..Len(tbl) : notDeleted(tbl[i]) /\ tbl[i].fishStocking = fishStockingId}

\* the ids the rows created by a call get
mintedIds(tbl, bs) == (Len(tbl) + 1)..(Len(tbl) + creates(bs))

\* the arguments of the last reconciliation and the size of the table before it
ReconcileCall(fishStocking, bs, rows) ==
  [fishStocking |-> fishStocking, batches |-> bs, rows |-> rows]

\* updateBatches / updateRegisteredBatches / reviewBatches called for an event
callUpdateBatches(fishStocking, bs) ==
  /\ Len(fishBatches) + creates(bs) <= MaxReconcileRows
  /\ fishBatches' = updateBatches(fishBatches, fishStocking, bs, now)
  /\ res' = Response("updateBatches", fishStocking,
                     updateBatchesError(fishBatches, fishStocking, bs, now), NoStatus, Null)
  /\ arg' = ReconcileCall(fishStocking, bs, Len(fishBatches))
  /\ UNCHANGED <<now, settings, fishStockings, ret>>

\* the desired list of a repeated call: the k-th entry without an id carries the
\* id of the k-th row that the first call returned as new
RECURSIVE withReturnedIds(_, _)
withReturnedIds(list, rows) ==
  IF list = <<>> THEN <<>>
  ELSE IF Head(list).id = Null
  THEN <<[Head(list) EXCEPT !.id = Some(rows + 1)]>> \o withReturnedIds(Tail(list), rows + 1)
  ELSE <<Head(list)>> \o withReturnedIds(Tail(list), rows)

repeated(call) == Some(withReturnedIds(call.batches[1], call.rows))

\* the caller repeats the reconciliation that has just succeeded, with the ids
\* that it returned
repeatUpdateBatches ==
  /\ res.op = "updateBatches" /\ res.err = "OK"
  /\ fishBatches' = updateBatches(fishBatches, arg.fishStocking, repeated(arg), now)
  /\ res' = Response("repeatUpdateBatches", arg.fishStocking,
                     updateBatchesError(fishBatches, arg.fishStocking, repeated(arg), now),
                     NoStatus, Null)
  /\ UNCHANGED <<now, settings, fishStockings, arg, ret>>

\* a registered event of freelancer 1 and the batch created with it
registeredStocking ==
  [eventTime |-> 1, canceledAt |-> Null, signatures |-> Null, tenant |-> Null,
   stockingCustomer |-> Null, assignedTo |-> Some(1), createdBy |-> Some(1),
   reviewedBy |-> Null, reviewTime |-> Null, deletedAt |-> Null]

InitReconcile ==
  /\ now = 0
  /\ settings = [minTimeTillFishStocking |-> 1, maxTimeForRegistration |-> MaxDuration]
  /\ fishStockings = <<registeredStocking, registeredStocking>>
  /\ fishBatches = createBatches(createBatches(<<>>, <<[fishType |-> 1, fishAge |-> 1, amount |-> 1]>>, 1),
                                 <<[fishType |-> 1, fishAge |-> 1, amount |-> 1]>>, 2)
  /\ res = NoResponse
  /\ arg = NoArg
  /\ ret = "pending"

NextReconcile ==
  \/ \E fishStocking \in ReconcileEvents, bs \in ReconcileLists :
        callUpdateBatches(fishStocking, bs)
  \/ repeatUpdateBatches

SpecReconcile == InitReconcile /\ [][NextReconcile]_vars

(* C15: after a reconciliation that completes successfully, the ids of the
   batches of the event are exactly the ids that the desired list named plus one
   new id for each entry without an id, whatever ids the desired list names. *)
C15_Completeness ==
  [][\A fishStocking \in ReconcileEvents, bs \in ReconcileLists :
       (res'.op = "updateBatches" /\ res'.err = "OK" /\ callUpdateBatches(fishStocking, bs))
         => liveIds(fishBatches', fishStocking)
              = namedIds(bs) \cup mintedIds(fishBatches, bs)]_vars

(* C16: a reconciliation that fails leaves the batches of the event as they were
   before the call. *)
C16_Atomicity ==
  [][\A fishStocking \in ReconcileEvents, bs \in ReconcileLists :
       (res'.op = "updateBatches" /\ res'.err # "OK" /\ callUpdateBatches(fishStocking, bs))
         => batchesByStocking(fishBatches', fishStocking)
              = batchesByStocking(fishBatches, fishStocking)]_vars

(* C17: repeating a successful reconciliation with the same desired list, the
   entries without an id now carrying the ids that the first call returned,
   succeeds, deletes nothing, creates nothing and leaves every row as it was. *)
C17_Idempotence ==
  [][res'.op = "repeatUpdateBatches"
       => /\ res'.err = "OK"
          /\ fishBatches' = fishBatches]_vars

\* the repeated call follows a call that deleted a row, updated one and created one
C17_Witness ==
  /\ res.op = "repeatUpdateBatches"
  /\ creates(arg.batches) > 0
  /\ namedIds(arg.batches) # {}
  /\ \E i \in 1..arg.rows : ~notDeleted(fishBatches[i])

(* ============ a reconciliation in flight and a concurrent read ========= *)

\* rows of the fish_batches table in these runs
MaxConcurrentRows == 3

\* the desired lists of these runs: empty, the first batch kept or reviewed, both
\* reviewed, one or two new batches, the first kept and a new one
ConcurrentLists ==
  { Some(<<>>),
    Some(<<Batch(Some(1), Some(1), Some(1), Some(1), Null)>>),
    Some(<<Batch(Some(1), Null, Null, Some(1), Some(1))>>),
    Some(<<Batch(Some(1), Null, Null, Some(1), Some(1)),
           Batch(Some(2), Null, Null, Some(1), Some(1))>>),
    Some(<<Batch(Null, Some(1), Some(1), Some(1), Null)>>),
    Some(<<Batch(Some(1), Some(1), Some(1), Some(1), Null),
           Batch(Null, Some(2), Some(1), Some(1), Null)>>),
    Some(<<Batch(Some(3), Null, Null, Some(1), Some(1))>>) }

\* the reconciliation under way: where it stands (pc), its arguments, the
\* removeEntity and updateEntity / createEntity promises not yet settled, the
\* first rejection, and the table as it was when the call began
Reconciliation(pc, fishStocking, bs, deletes, writes, err, before) ==
  [pc |-> pc, fishStocking |-> fishStocking, batches |-> bs, deletes |-> deletes,
   writes |-> writes, err |-> err, before |-> before]

NoReconciliation == Reconciliation("idle", 0, Null, {}, {}, "OK", <<>>)

\* deleteExistingBatches up to Promise.all: the rows to delete are chosen and
\* their removeEntity promises issued
beginUpdateBatches(fishStocking, bs) ==
  LET existingBatches == findBatchIds(fishBatches, fishStocking)
      deleteBatches == {b \in {existingBatches[i] : i \in 1..Len(existingBatches)} :
                          b \notin namedIds(bs)}
  IN /\ arg.pc = "idle"
     /\ Len(fishBatches) + creates(bs) <= MaxConcurrentRows
     /\ arg' = Reconciliation("deleteExistingBatches", fishStocking, bs, deleteBatches, {},
                              "OK", fishBatches)
     /\ ret' = "pending"
     /\ res' = Response("beginUpdateBatches", fishStocking, "OK", NoStatus, Null)
     /\ UNCHANGED <<now, settings, fishStockings, fishBatches>>

\* one removeEntity settles
removeEntitySettles(id) ==
  /\ arg.pc = "deleteExistingBatches"
  /\ id \in arg.deletes
  /\ fishBatches' = removeEntity(fishBatches, id, now)
  /\ arg' = [arg EXCEPT !.deletes = @ \ {id}]
  /\ res' = Response("removeEntity", arg.fishStocking, "OK", NoStatus, Null)
  /\ UNCHANGED <<now, settings, fishStockings, ret>>

\* await Promise.all of the deletes returns; createOrUpdateBatches issues one
\* promise per entry of the desired list
issueCreateOrUpdate ==
  /\ arg.pc = "deleteExistingBatches"
  /\ arg.deletes = {}
  /\ arg' = [arg EXCEPT !.pc = "createOrUpdateBatches",
                        !.writes = 1..Len(arg.batches[1])]
  /\ res' = Response("createOrUpdateBatches", arg.fishStocking, "OK", NoStatus, Null)
  /\ UNCHANGED <<now, settings, fishStockings, fishBatches, ret>>

\* one updateEntity or createEntity settles
writeSettles(i) ==
  LET one == Some(<<arg.batches[1][i]>>)
      err == createOrUpdateError(fishBatches, one)
  IN /\ arg.pc = "createOrUpdateBatches"
     /\ i \in arg.writes
     /\ fishBatches' = createOrUpdateBatches(fishBatches, arg.fishStocking, one)
     /\ arg' = [arg EXCEPT !.writes = @ \ {i},
                           !.err = IF @ = "OK" THEN err ELSE @]
     /\ res' = Response("write", arg.fishStocking, err, NoStatus, Null)
     /\ UNCHANGED <<now, settings, fishStockings, ret>>

\* await Promise.all of the writes returns or throws: the call is over
endUpdateBatches ==
  /\ arg.pc = "createOrUpdateBatches"
  /\ arg.writes = {}
  /\ arg' = [arg EXCEPT !.pc = "idle"]
  /\ res' = Response("updateBatches", arg.fishStocking, arg.err, NoStatus, Null)
  /\ UNCHANGED <<now, settings, fishStockings, fishBatches, ret>>

\* another request reads the event: the status populate of its response
readStatus(id) ==
  /\ id \in StockingIds
  /\ ret' = status(id)
  /\ res' = Response("readStatus", id, "OK", status(id), Null)
  /\ UNCHANGED <<now, settings, fishStockings, fishBatches, arg>>

\* one event of freelancer 1, registered with one batch or with two
InitConcurrent ==
  /\ now \in ClockTimes
  /\ settings = [minTimeTillFishStocking |-> 1, maxTimeForRegistration |-> MaxDuration]
  /\ \E eventTime \in EventTimes :
       fishStockings = <<[registeredStocking EXCEPT !.eventTime = eventTime]>>
  /\ \E bs \in {<<[fishType |-> 1, fishAge |-> 1, amount |-> 1]>>,
                <<[fishType |-> 1, fishAge |-> 1, amount |-> 1],
                  [fishType |-> 2, fishAge |-> 1, amount |-> 1]>>} :
       fishBatches = createBatches(<<>>, bs, 1)
  /\ res = NoResponse
  /\ arg = NoReconciliation
  /\ ret = "pending"

NextConcurrent ==
  \/ \E bs \in ConcurrentLists : beginUpdateBatches(1, bs)
  \/ \E id \in 1..MaxConcurrentRows : removeEntitySettles(id)
  \/ issueCreateOrUpdate
  \/ \E i \in 1..MaxBatchList : writeSettles(i)
  \/ endUpdateBatches
  \/ readStatus(1)

SpecConcurrent == InitConcurrent /\ [][NextConcurrent]_vars

\* the status of the event with the batches as they were before the
\* reconciliation, and with the batches of the completed reconciliation
derivedBefore == statusIn(fishStockings, arg.before, settings, now, arg.fishStocking)
derivedAfter ==
  statusIn(fishStockings, updateBatches(arg.before, arg.fishStocking, arg.batches, now),
           settings, now, arg.fishStocking)

(* C18: a status read since a reconciliation began, every operation of which
   succeeds, is the status before the reconciliation or the status after it
   (both of them statuses of the lifecycle). *)
C18_NoHalfApplied ==
  (/\ arg.fishStocking # 0
   /\ ret # "pending"
   /\ {derivedBefore, derivedAfter} \subseteq FishStockingStatus
   /\ updateBatchesError(arg.before, arg.fishStocking, arg.batches, now) = "OK")
    => ret \in {derivedBefore, derivedAfter}

(* ================== who may modify an event: the actors ================ *)

\* ctx.meta of the requests of these runs: two freelancers, a user of tenant 1
\* and a user of tenant 2 with their tenant profile active, and a user who is
\* no freelancer and has no profile active
AuthActors ==
  { [user |-> 1, isFreelancer |-> TRUE, profile |-> Null],
    [user |-> 3, isFreelancer |-> TRUE, profile |-> Null],
    [user |-> 2, isFreelancer |-> FALSE, profile |-> Some(1)],
    [user |-> 4, isFreelancer |-> FALSE, profile |-> Some(2)],
    [user |-> 5, isFreelancer |-> FALSE, profile |-> Null] }

\* an event on the second day with one batch, with or without a stocking customer
AuthRegisterParams ==
  [eventTime : {DayTicks + 1}, batches : {<<[fishType |-> 1, fishAge |-> 1, amount |-> 1]>>},
   stockingCustomer : Option(Tenants)]

AuthReviewParams == [batches : {<<ReviewBatch(1)>>}, signatures : {Null}]

AuthUpdateParams ==
  [eventTime : {DayTicks + 1}, assignedTo : {Null, Some(2)}, batches : {Null},
   stockingCustomer : {Null}]

\* the administrator assigns the event to somebody else
AuthAdminParams == {[NoAdminParams EXCEPT !.assignedTo = Some(u)] : u \in {1, 2, 3}}

InitAuth ==
  /\ now = 0
  /\ settings = [minTimeTillFishStocking |-> 1, maxTimeForRegistration |-> MaxDuration]
  /\ fishStockings = <<>>
  /\ fishBatches = <<>>
  /\ res = NoResponse
  /\ arg = NoArg
  /\ ret = "pending"

NextAuth ==
  \/ \E actor \in AuthActors, p \in AuthRegisterParams : register(actor, p)
  \/ \E actor \in AuthActors, id \in 1..MaxStockings : cancel(actor, id)
  \/ \E actor \in AuthActors, id \in 1..MaxStockings, p \in AuthReviewParams :
        review(actor, id, p)
  \/ \E actor \in AuthActors, id \in 1..MaxStockings, p \in AuthUpdateParams :
        updateRegistration(actor, id, p)
  \/ \E id \in 1..MaxStockings, p \in AuthAdminParams : updateFishStocking(id, p)
  \/ Tick

SpecAuth == InitAuth /\ [][NextAuth]_vars

\* the actors the specification lets modify an event: the owning tenant or the
\* stocking customer for an event of a tenant, the creator or the person
\* assigned for an event without a tenant
mayModifyAsStated(actor, fs) ==
  IF fs.tenant # Null
  THEN actor.profile # Null /\ actor.profile \in {fs.tenant, fs.stockingCustomer}
  ELSE Some(actor.user) \in {fs.createdBy, fs.assignedTo}

\* the actors that modify an event: with a tenant profile, the owning tenant or
\* the stocking customer of the event, with or without an owning tenant;
\* without a profile, the creator of an event without a tenant who, if a
\* freelancer, is also the person assigned
mayModify(actor, fs) ==
  IF actor.profile # Null
  THEN actor.profile \in {fs.tenant, fs.stockingCustomer}
  ELSE /\ fs.tenant = Null
       /\ fs.createdBy = Some(actor.user)
       /\ actor.isFreelancer => fs.assignedTo = Some(actor.user)

\* the step is a cancel, review or updateRegistration of event id by actor
modifies(actor, id) ==
  \/ res'.op = "cancel" /\ cancel(actor, id)
  \/ res'.op = "review" /\ \E p \in AuthReviewParams : review(actor, id, p)
  \/ res'.op = "updateRegistration"
       /\ \E p \in AuthUpdateParams : updateRegistration(actor, id, p)

\* the request is rejected and changes nothing
rejectedUnchanged == res'.err # "OK" /\ UNCHANGED db

(* C20 as stated: an event of a tenant is modified only by an actor whose profile
   is the owning tenant or the stocking customer, an event without a tenant only
   by its creator or the person assigned; every other actor is rejected and the
   event and its batches stay as they are. *)
C20_Original ==
  [][\A actor \in AuthActors, id \in StockingIds :
       (modifies(actor, id) /\ ~mayModifyAsStated(actor, fishStockings[id]))
         => rejectedUnchanged]_vars

(* C20: cancel, review and updateRegistration modify an event only when the
   actor's active tenant profile is the owning tenant or the stocking customer
   of the event (also of an event without an owning tenant), or when the actor
   has no profile, the event has no tenant, the actor created it and, being a
   freelancer, is the person assigned; every other actor is rejected and the
   event and its batches stay as they are. *)
C20_WhoMayModify ==
  [][\A actor \in AuthActors, id \in StockingIds :
       (modifies(actor, id) /\ ~mayModify(actor, fishStockings[id]))
         => rejectedUnchanged]_vars

\* the freelancer who created an event with a stocking customer, and to whom it
\* is no longer assigned, has been refused
C20_Witness ==
  /\ res.op \in {"cancel", "review", "updateRegistration"}
  /\ res.err = "NO_RIGHTS"
  /\ res.id \in StockingIds
  /\ notDeleted(fishStockings[res.id])
  /\ fishStockings[res.id].tenant = Null
  /\ fishStockings[res.id].stockingCustomer # Null

(* ============================ removing an event ======================== *)

\* validateDeleteTime: TRUE when it returns without throwing INVALID_DELETE_TIME.
\* No action of the service calls it
validateDeleteTime(fishStocking, today, s) ==
  LET minTime == s.minTimeTillFishStocking
      maxPermittedTime == sub(fishStocking.eventTime, minTime)
  IN isBefore(today, maxPermittedTime)

\* actions.remove: the remove action of the database mixin, open to the
\* administrator; the row is found through the default scopes and removed
remove(id) ==
  IF ~adminResolves(id)
  THEN Reject("remove", id, "ENTITY_NOT_FOUND", NoStatus, Null)
  ELSE /\ fishStockings' = removeEntity(fishStockings, id, now)
       /\ res' = Response("remove", id, "OK", status(id), Some(fishStockings[id].eventTime))
       /\ UNCHANGED <<now, settings, fishBatches, arg, ret>>

\* the administrator reviews the batch, signs or cancels
DeleteAdminParams ==
  { [NoAdminParams EXCEPT !.batches = Some(<<ReviewedBatch(1)>>)],
    [NoAdminParams EXCEPT !.signatures = Some(<<"signature">>)],
    [NoAdminParams EXCEPT !.canceledAt = Some(0)] }

InitDelete ==
  /\ now = 0
  /\ settings \in LifeSettings
  /\ fishStockings = <<>>
  /\ fishBatches = <<>>
  /\ res = NoResponse
  /\ arg = NoArg
  /\ ret = "pending"

NextDelete ==
  \/ \E actor \in Actors, p \in AuthRegisterParams : register(actor, p)
  \/ \E actor \in Actors, id \in 1..MaxStockings : cancel(actor, id)
  \/ \E id \in 1..MaxStockings, p \in DeleteAdminParams : updateFishStocking(id, p)
  \/ \E id \in 1..MaxStockings : remove(id)
  \/ Tick

SpecDelete == InitDelete /\ [][NextDelete]_vars

\* the statuses past the initial upcoming state
PastUpcoming == {ONGOING, NOT_FINISHED, FINISHED, INSPECTED, CANCELED}

(* C21: an event whose status is ONGOING, NOT_FINISHED, FINISHED, INSPECTED or
   CANCELED is not removed by a cancel or by a remove. *)
C21_NoRemovalPastUpcoming ==
  [][\A id \in StockingIds :
       (/\ res'.op \in {"cancel", "remove"}
        /\ notDeleted(fishStockings[id])
        /\ status(id) \in PastUpcoming)
         => notDeleted(fishStockings'[id])]_vars

(* C22: a remove asked when now is not before eventTime minus
   minTimeTillFishStocking days fails with INVALID_DELETE_TIME and the event
   stays; a remove that succeeds was asked before that instant. *)
C22_DeleteTime ==
  [][(res'.op = "remove" /\ res'.id \in StockingIds /\ notDeleted(fishStockings[res'.id]))
       => IF validateDeleteTime(fishStockings[res'.id], now, settings)
          THEN TRUE
          ELSE res'.err = "INVALID_DELETE_TIME" /\ UNCHANGED db]_vars

(* ================= notifications and the inspector of an event ========= *)

\* rows of the auth users that auth.users.get finds
InspectorRows == {7, 8}
\* the inspector of a request: 9 is no user
InspectorParams == {7, 8, 9}

\* what the mail client does with a message: the promise resolves or rejects
Deliveries == {"delivered", "rejected"}

\* the inspector column of fish_stockings, row id = index: Null or Some(user id)
InspectorColumn(inspector) == [inspector |-> inspector]

\* the mail action returns the promise of the client without waiting for it, so
\* its try / catch does not see a rejection and the caller's await throws
sendFishStockingUpdateEmail(emailsToNotify, delivery) ==
  IF emailsToNotify = 0 THEN "OK"
  ELSE IF delivery = "rejected" THEN "MAIL_ERROR" ELSE "OK"

sendFishStockingAssignedEmail(delivery) ==
  IF delivery = "rejected" THEN "MAIL_ERROR" ELSE "OK"

\* register with its notification: emailsToNotify users have the access
\* FISH_STOCKING_EMAILS in the municipality of the event
registerNotify(actor, p, emailsToNotify, delivery) ==
  LET id == Len(fishStockings) + 1
      fishStocking ==
        [registeredStocking EXCEPT
           !.eventTime = p.eventTime, !.tenant = actor.profile,
           !.stockingCustomer = p.stockingCustomer,
           !.assignedTo = Some(actor.user), !.createdBy = Some(actor.user)]
  IN IF ~isTimeBeforeReview(p.eventTime, now, settings) \/ validateFishData(p.batches) # "OK"
     THEN register(actor, p)
     ELSE /\ Len(fishStockings) < MaxStockings
          /\ Len(fishBatches) + Len(p.batches) <= MaxBatchRows
          /\ fishStockings' = Append(fishStockings, fishStocking)
          /\ fishBatches' = createBatches(fishBatches, p.batches, id)
          /\ arg' = InspectorColumn(Append(arg.inspector, Null))
          /\ res' = Response("register", id,
                             sendFishStockingUpdateEmail(emailsToNotify, delivery),
                             statusIn(fishStockings', fishBatches', settings, now, id),
                             Some(p.eventTime))
          /\ UNCHANGED <<now, settings, ret>>

\* requests of the administrator that name an inspector: alone, with batches,
\* with signatures
InspectorUpdateParams ==
  {NoAdminParams}
    \cup {[NoAdminParams EXCEPT !.batches = Some(l)] : l \in AdminBatchLists}
    \cup {[NoAdminParams EXCEPT !.signatures = Some(<<"signature">>)]}

\* updateFishStocking of a request with ctx.params.inspector; p carries neither
\* assignedTo nor canceledAt
updateFishStockingInspector(id, p, inspector, delivery) ==
  LET st == IF adminResolves(id) THEN status(id) ELSE NoStatus
      fishData == IF p.batches = Null THEN "OK"
                  ELSE validateFishData(fishDataOf(p.batches[1]))
      batchesError == IF p.batches = Null THEN "OK"
                      ELSE updateBatchesError(fishBatches, id, p.batches, now)
      eventTime == IF p.eventTime # Null THEN p.eventTime[1] ELSE fishStockings[id].eventTime
      assigned == arg.inspector[id] # Some(inspector)
      err == IF batchesError # "OK" THEN batchesError
             ELSE IF inspector \notin InspectorRows THEN "INVALID_INSPECTOR"
             ELSE IF ~adminResolves(id) THEN "ENTITY_NOT_FOUND"
             ELSE IF assigned THEN sendFishStockingAssignedEmail(delivery)
             ELSE "OK"
      updated == batchesError = "OK" /\ inspector \in InspectorRows /\ adminResolves(id)
  IN IF fishData # "OK"
     THEN Reject("updateFishStocking", id, fishData, st, Null)
     ELSE /\ fits(p.batches)
          /\ fishBatches' =
               IF p.batches = Null THEN fishBatches
               ELSE updateBatches(fishBatches, id, p.batches, now)
          /\ fishStockings' =
               IF ~updated THEN fishStockings
               ELSE [fishStockings EXCEPT
                       ![id].eventTime = eventTime,
                       ![id].signatures = patch(@, p.signatures)]
          /\ arg' = IF ~updated THEN arg
                    ELSE InspectorColumn([arg.inspector EXCEPT ![id] = Some(inspector)])
          /\ res' = Response("updateFishStocking", id, err, st, Null)
          /\ UNCHANGED <<now, settings, ret>>

InitMail ==
  /\ now = 0
  /\ settings \in LifeSettings
  /\ fishStockings = <<>>
  /\ fishBatches = <<>>
  /\ res = NoResponse
  /\ arg = InspectorColumn(<<>>)
  /\ ret = "pending"

NextMail ==
  \/ \E actor \in Actors, p \in RegisterParams, emailsToNotify \in 0..1,
        delivery \in Deliveries : registerNotify(actor, p, emailsToNotify, delivery)
  \/ \E id \in 1..MaxStockings, p \in InspectorUpdateParams, inspector \in InspectorParams,
        delivery \in Deliveries : updateFishStockingInspector(id, p, inspector, delivery)
  \/ Tick

SpecMail == InitMail /\ [][NextMail]_vars

(* C23: a register or an update by the administrator that assigns a new
   inspector, whose notification is rejected by the mail client, keeps what it
   wrote and reports success. *)
C23_MailBestEffort ==
  [][/\ \A actor \in Actors, p \in RegisterParams :
          (/\ res'.op = "register"
           /\ isTimeBeforeReview(p.eventTime, now, settings)
           /\ validateFishData(p.batches) = "OK"
           /\ registerNotify(actor, p, 1, "rejected"))
            => /\ res'.err = "OK"
               /\ Len(fishStockings') = Len(fishStockings) + 1
               /\ notDeleted(fishStockings'[Len(fishStockings')])
               /\ Len(fishBatches') = Len(fishBatches) + Len(p.batches)
     /\ \A id \in StockingIds, p \in InspectorUpdateParams, inspector \in InspectorRows :
          (/\ res'.op = "updateFishStocking"
           /\ adminResolves(id)
           /\ arg.inspector[id] # Some(inspector)
           /\ p.batches # Null => /\ validateFishData(fishDataOf(p.batches[1])) = "OK"
                                  /\ updateBatchesError(fishBatches, id, p.batches, now) = "OK"
           /\ updateFishStockingInspector(id, p, inspector, "rejected"))
            => /\ res'.err = "OK"
               /\ arg'.inspector[id] = Some(inspector)
               /\ p.batches # Null => fishBatches' = updateBatches(fishBatches, id, p.batches, now)]_vars

(* -------------------------- review, then inspect ---------------------- *)

\* a request of the administrator that only adds signatures
OnlySignatures == [NoAdminParams EXCEPT !.signatures = Some(<<"signature">>)]

(* C24: after a successful review of an event that has no signatures, by a
   request that brings none, the status is FINISHED; an update by the
   administrator that follows and only adds signatures makes the status
   INSPECTED and changes nothing but the signatures. *)
C24_ReviewThenInspect ==
  [][/\ (/\ res'.op = "review" /\ res'.err = "OK"
         /\ isEmpty(fishStockings'[res'.id].signatures))
          => statusAfter(res'.id) = FINISHED
     /\ \A id \in StockingIds :
          (/\ res.op = "review" /\ res.err = "OK" /\ res.id = id
           /\ isEmpty(fishStockings[id].signatures)
           /\ res'.op = "updateFishStocking"
           /\ updateFishStocking(id, OnlySignatures))
            => /\ res'.err = "OK"
               /\ statusAfter(id) = INSPECTED
               /\ fishBatches' = fishBatches
               /\ fishStockings' =
                    [fishStockings EXCEPT ![id].signatures = OnlySignatures.signatures]]_vars

\* the administrator has added signatures to an event that was FINISHED after its
\* review, and the event is INSPECTED
C24_Witness ==
  /\ res.op = "updateFishStocking" /\ res.err = "OK" /\ res.status = FINISHED
  /\ res.id \in StockingIds
  /\ fishStockings[res.id].reviewTime # Null
  /\ fishStockings[res.id].signatures = OnlySignatures.signatures
  /\ status(res.id) = INSPECTED

(* ===================== validateFishData, on its own ==================== *)

\* batches of a request in these runs
MaxValidateList == 3

\* fish types and fish ages a request can name: type 3 and age 2 do not exist
FishDataEntries == [fishType : 1..3, fishAge : 1..2]

FishDataLists ==
  UNION {[1..n -> FishDataEntries] : n \in 1..MaxValidateList}

InitValidate ==
  /\ now = 0
  /\ settings = [minTimeTillFishStocking |-> 1, maxTimeForRegistration |-> MaxDuration]
  /\ fishStockings = <<>>
  /\ fishBatches = <<>>
  /\ res = NoResponse
  /\ arg \in FishDataLists
  /\ ret = "pending"

\* register, updateRegistration or updateFishStocking validates ctx.params.batches
callValidateFishData ==
  /\ ret = "pending"
  /\ ret' = validateFishData(arg)
  /\ UNCHANGED <<now, settings, fishStockings, fishBatches, res, arg>>

NextValidate == callValidateFishData

SpecValidate == InitValidate /\ [][NextValidate]_vars

\* some batch of the list names a fish type, a fish age, that does not exist
missingFishType(bs) == \E i \in 1..Len(bs) : bs[i].fishType \notin FishTypeRows
missingFishAge(bs) == \E i \in 1..Len(bs) : bs[i].fishAge \notin FishAgeRows

(* C25: the list is rejected with INVALID_FISH_TYPE exactly when a batch
   names a fish type that does not exist, with INVALID_FISH_AGE exactly when
   (the types existing) a batch names a fish age that does not exist, and passes
   otherwise, also with two batches of the same type or age. *)
C25_Original ==
  ret # "pending" =>
    /\ ret = "INVALID_FISH_TYPE" <=> missingFishType(arg)
    /\ ret = "INVALID_FISH_AGE" <=> (~missingFishType(arg) /\ missingFishAge(arg))
    /\ ret = "OK" <=> (~missingFishType(arg) /\ ~missingFishAge(arg))

(* ------------------- reconciliation and the other events --------------- *)

(* C26: a reconciliation for one event leaves every batch of every other event
   as it is: its existence, its field values and its owner, whatever ids the
   desired list names. *)
C26_OtherEventsUntouched ==
  [][\A fishStocking \in ReconcileEvents, bs \in ReconcileLists :
       (res'.op = "updateBatches" /\ callUpdateBatches(fishStocking, bs))
         => \A i \in 1..Len(fishBatches) :
              fishBatches[i].fishStocking # fishStocking => fishBatches'[i] = fishBatches[i]]_vars

(* ------------------------- rejected operations ------------------------ *)

\* the validation and authorization errors of the lifecycle operations
RejectionErrors ==
  {"INVALID_ID", "NO_RIGHTS", "INVALID_STATUS", "INVALID_EVENT_TIME", "INVALID_FISH_TYPE",
   "INVALID_FISH_AGE", "ASSIGNED_TO_NOT_DEFINED", "INVALID_ASSIGNED_TO",
   "INVALID_CANCELED_AT", "INVALID_INSPECTOR"}

(* C27: a lifecycle operation that is rejected with a validation or an
   authorization error leaves the events and the batches as they were; an update
   by the administrator rejected for its inspector has not reconciled the batches
   of the request. *)
C27_RejectedUnchanged ==
  [][(/\ res'.op \in {"register", "updateRegistration", "review", "cancel",
                      "updateFishStocking"}
      /\ res'.err \in RejectionErrors)
       => UNCHANGED db]_vars

(* ============== a cancel and a review of the same event ================ *)

\* the two requests of these runs: where each stands (idle, then after its
\* status check the writes it still has to do, then done), the status it read,
\* its outcome, and whether one of them read while the other was under way
Race(cancelPc, reviewPc, cancelRead, reviewRead, cancelErr, reviewErr, p, overlap, start) ==
  [cancel |-> cancelPc, review |-> reviewPc, cancelRead |-> cancelRead,
   reviewRead |-> reviewRead, cancelErr |-> cancelErr, reviewErr |-> reviewErr,
   params |-> p, overlap |-> overlap, start |-> start]

underWay(pc) == pc \notin {"idle", "done"}

RaceReviewParams ==
  [batches : {<<ReviewBatch(1)>>, <<ReviewBatch(2)>>}, signatures : {Null}]

\* cancel up to its status check: the lookup with the status populate, the
\* rights, the status
cancelReads(actor, id) ==
  LET err == IF ~resolves(actor, id) THEN "INVALID_ID"
             ELSE IF ~canProfileModifyFishStocking(actor, fishStockings[id]) THEN "NO_RIGHTS"
             ELSE IF ~cancelPermitted(status(id)) THEN "INVALID_STATUS"
             ELSE "OK"
      st == IF resolves(actor, id) THEN status(id) ELSE NoStatus
  IN /\ arg.cancel = "idle"
     /\ arg' = [arg EXCEPT !.cancel = IF err = "OK" THEN "write" ELSE "done",
                           !.cancelRead = st, !.cancelErr = err,
                           !.overlap = @ \/ underWay(arg.review)]
     /\ res' = Response("cancelReads", id, err, st, Null)
     /\ UNCHANGED <<now, settings, fishStockings, fishBatches, ret>>

\* variant: the write of a cancel stamps nothing
cancelWrites_noStamp(id) ==
  /\ arg.cancel = "write"
  /\ arg' = [arg EXCEPT !.cancel = "done"]
  /\ res' = Response("cancel", id, "OK", arg.cancelRead, Null)
  /\ UNCHANGED <<now, settings, fishStockings, fishBatches, ret>>

\* cancel's write: removeEntity of an UPCOMING event, else updateEntity with canceledAt
cancelWrites(id) ==
  /\ arg.cancel = "write"
  /\ IF arg.cancelRead = UPCOMING
     THEN fishStockings' = removeEntity(fishStockings, id, now)
     ELSE fishStockings' = [fishStockings EXCEPT ![id].canceledAt = Some(toDateString(now))]
  /\ arg' = [arg EXCEPT !.cancel = "done"]
  /\ res' = Response("cancel", id, "OK", arg.cancelRead, Null)
  /\ UNCHANGED <<now, settings, fishBatches, ret>>

\* review up to its status check
reviewReads(actor, id, p) ==
  LET err == IF ~resolves(actor, id) THEN "INVALID_ID"
             ELSE IF ~canProfileModifyFishStocking(actor, fishStockings[id]) THEN "NO_RIGHTS"
             ELSE IF ~reviewPermitted(status(id)) THEN "INVALID_STATUS"
             ELSE "OK"
      st == IF resolves(actor, id) THEN status(id) ELSE NoStatus
  IN /\ arg.review = "idle"
     /\ arg' = [arg EXCEPT !.review = IF err = "OK" THEN "reviewBatches" ELSE "done",
                           !.reviewRead = st, !.reviewErr = err,
                           !.params = [batches |-> p.batches, signatures |-> p.signatures,
                                       user |-> actor.user],
                           !.overlap = @ \/ underWay(arg.cancel)]
     /\ res' = Response("reviewReads", id, err, st, Null)
     /\ UNCHANGED <<now, settings, fishStockings, fishBatches, ret>>

\* await ctx.call('fishBatches.reviewBatches')
reviewReconciles(id) ==
  LET err == updateBatchesError(fishBatches, id, Some(arg.params.batches), now)
  IN /\ arg.review = "reviewBatches"
     /\ fishBatches' = updateBatches(fishBatches, id, Some(arg.params.batches), now)
     /\ arg' = [arg EXCEPT !.review = IF err = "OK" THEN "updateEntity" ELSE "done",
                           !.reviewErr = err]
     /\ res' = Response("reviewBatches", id, err, arg.reviewRead, Null)
     /\ UNCHANGED <<now, settings, fishStockings, ret>>

\* await this.updateEntity with reviewedBy and reviewTime
reviewStamps(id) ==
  /\ arg.review = "updateEntity"
  /\ fishStockings' =
       [fishStockings EXCEPT
          ![id] = stampReview([@ EXCEPT !.signatures = patch(@, arg.params.signatures)],
                              arg.params.user, now)]
  /\ arg' = [arg EXCEPT !.review = "done"]
  /\ res' = Response("review", id, "OK", arg.reviewRead, Null)
  /\ UNCHANGED <<now, settings, fishBatches, ret>>

\* one event of freelancer 1 with one batch or two, at some instant
InitRace ==
  /\ now \in ClockTimes
  /\ settings \in LifeSettings
  /\ \E eventTime \in EventTimes :
       fishStockings = <<[registeredStocking EXCEPT !.eventTime = eventTime]>>
  /\ \E bs \in {<<[fishType |-> 1, fishAge |-> 1, amount |-> 1]>>,
                <<[fishType |-> 1, fishAge |-> 1, amount |-> 1],
                  [fishType |-> 2, fishAge |-> 1, amount |-> 1]>>} :
       fishBatches = createBatches(<<>>, bs, 1)
  /\ res = NoResponse
  /\ arg = Race("idle", "idle", NoStatus, NoStatus, "OK", "OK", Null, FALSE,
                statusIn(fishStockings, fishBatches, settings, now, 1))
  /\ ret = "pending"

NextRace ==
  \/ \E actor \in Actors : cancelReads(actor, 1)
  \/ cancelWrites(1)
  \/ \E actor \in Actors, p \in RaceReviewParams : reviewReads(actor, 1, p)
  \/ reviewReconciles(1)
  \/ reviewStamps(1)

SpecRace == InitRace /\ [][NextRace]_vars

\* both requests are over, on an event that was ONGOING when they came
raceOver == arg.cancel = "done" /\ arg.review = "done" /\ arg.start = ONGOING

\* the event carries something of the review
reviewedBy1 ==
  \/ fishStockings[1].reviewTime # Null
  \/ fishStockings[1].reviewedBy # Null
  \/ \E i \in 1..Len(fishBatches) : fishBatches[i].reviewAmount # Null

(* C28 as stated: whatever the interleaving of a cancel and a review of an
   ONGOING event, once both are over an event that is canceled has no reviewTime,
   no reviewedBy and no batch with a reviewAmount. *)
C28_Original ==
  (raceOver /\ fishStockings[1].canceledAt # Null) => ~reviewedBy1

(* C28: when the cancel and the review of an ONGOING event do not overlap (the
   later one reads the status after the earlier one is over), the later one is
   rejected with INVALID_STATUS and a canceled event carries nothing of the
   review; when both read the status before either writes, both go through. *)
C28_SerialExclusion ==
  /\ (raceOver /\ ~arg.overlap)
       => /\ fishStockings[1].canceledAt # Null => ~reviewedBy1
          /\ "INVALID_STATUS" \in {arg.cancelErr, arg.reviewErr}
  /\ (raceOver /\ arg.cancelRead = ONGOING /\ arg.reviewRead = ONGOING)
       => arg.cancelErr = "OK" /\ fishStockings[1].canceledAt # Null

\* the review went through and the cancel that came after it was rejected
C28_Witness ==
  /\ raceOver /\ ~arg.overlap
  /\ arg.reviewErr = "OK" /\ arg.cancelErr = "INVALID_STATUS"
  /\ fishStockings[1].reviewTime # Null

(* ================= the status filter of list and find ================== *)

\* INTERVAL '10 days' of the NOT_FINISHED condition
HardCodedDays == 10

\* EXISTS (... fb.review_amount IS NOT NULL AND fb.deleted_at is NULL)
BATCH_DATA_EXISTS_QUERY(batches) ==
  \E i \in 1..Len(batches) : batches[i].reviewAmount # Null

\* date_trunc('day', event_time + '00:00:00')
date_trunc(fishStocking) == startOfDay(fishStocking.eventTime)

\* whether the row satisfies the condition built for the status st at NOW() = today
getStatusQueries(maxTime, st, fishStocking, batches, today) ==
  CASE st = CANCELED -> fishStocking.canceledAt # Null
    [] st = INSPECTED ->
         fishStocking.signatures # Null /\ BATCH_DATA_EXISTS_QUERY(batches)
    [] st = FINISHED ->
         fishStocking.signatures = Null /\ BATCH_DATA_EXISTS_QUERY(batches)
    [] st = ONGOING ->
         /\ today < date_trunc(fishStocking) + maxTime * DayTicks
         /\ today > date_trunc(fishStocking)
         /\ ~BATCH_DATA_EXISTS_QUERY(batches)
         /\ fishStocking.canceledAt = Null
    [] st = UPCOMING ->
         /\ today < date_trunc(fishStocking)
         /\ ~BATCH_DATA_EXISTS_QUERY(batches)
         /\ fishStocking.canceledAt = Null
    [] st = NOT_FINISHED ->
         /\ today > date_trunc(fishStocking) + HardCodedDays * DayTicks
         /\ ~BATCH_DATA_EXISTS_QUERY(batches)
         /\ fishStocking.canceledAt = Null

\* the clock runs past the ten days after the first events
FilterTimes == 0..(DayTicks * (HardCodedDays + 2) - 1)

FilterSettings ==
  [minTimeTillFishStocking : {1}, maxTimeForRegistration : {0, 1, HardCodedDays}]

\* one stored event with its batches, as the status populate loads them
FilterArgs ==
  [fishStocking : [eventTime : 0..(2 * DayTicks - 1), canceledAt : Option({0}),
                   signatures : SignatureValues],
   batches : {Some(bs) : bs \in BatchLists}]

InitFilter ==
  /\ now \in FilterTimes
  /\ settings \in FilterSettings
  /\ arg \in FilterArgs
  /\ ret = "pending"
  /\ fishStockings = <<>>
  /\ fishBatches = <<>>
  /\ res = [op |-> "none", status |-> NoStatus, listed |-> FALSE]

\* a list with filter {status: [st]}, and the status populated on the same row
beforeSelect(st) ==
  /\ ret = "pending"
  /\ ret' = getStatus(arg.fishStocking, arg.batches, settings, now)
  /\ res' = [op |-> "list", status |-> st,
             listed |-> getStatusQueries(settings.maxTimeForRegistration, st,
                                         arg.fishStocking, arg.batches[1], now)]
  /\ UNCHANGED <<now, settings, arg, fishStockings, fishBatches>>

NextFilter == \E st \in FishStockingStatus : beforeSelect(st)

SpecFilter == InitFilter /\ [][NextFilter]_vars

(* C29: the list filtered by a status returns an event exactly when the status
   derived for that event is that status. *)
C29_FilterAgrees ==
  res.op = "list" => (res.listed <=> ret = res.status)

(* ================== the status while the clock advances ================ *)

\* the clock runs past the end of the window of every event below
WindowMax == DayTicks * (ClockDays + MaxDuration + 1) - 1

\* an event that is not canceled, with at least one batch without reviewAmount
OpenEvents ==
  [fishStocking : [eventTime : 0..(ClockDays * DayTicks - 1), canceledAt : {Null},
                   signatures : {Null}],
   batches : {Some(bs) : bs \in {l \in BatchLists :
                                   \E i \in 1..Len(l) : l[i].reviewAmount = Null}}]

\* res keeps the statuses derived so far
InitWindow ==
  /\ now = 0
  /\ settings \in [minTimeTillFishStocking : {1}, maxTimeForRegistration : 0..MaxDuration]
  /\ arg \in OpenEvents
  /\ ret = getStatus(arg.fishStocking, arg.batches, settings, now)
  /\ fishStockings = <<>>
  /\ fishBatches = <<>>
  /\ res = [op |-> "none", seen |-> {ret}]

\* the clock moves on by one tick and the status is derived again
getStatusLater ==
  /\ now < WindowMax
  /\ now' = now + 1
  /\ ret' = getStatus(arg.fishStocking, arg.batches, settings, now')
  /\ res' = [op |-> "getStatus", seen |-> res.seen \cup {ret'}]
  /\ UNCHANGED <<settings, arg, fishStockings, fishBatches>>

NextWindow == getStatusLater

\* the clock does not stop
SpecWindow == InitWindow /\ [][NextWindow]_vars /\ WF_vars(getStatusLater)

\* the place of a status in the order UPCOMING, ONGOING, NOT_FINISHED
windowRank(st) ==
  CASE st = UPCOMING -> 1
    [] st = ONGOING -> 2
    [] st = NOT_FINISHED -> 3
    [] OTHER -> 0

(* C30: while the clock advances over an event that is not canceled and has a
   batch without reviewAmount, under maxTimeForRegistration >= 0, a status
   derived later is never earlier in the order UPCOMING, ONGOING, NOT_FINISHED
   than a status derived before (no ONGOING is followed by UPCOMING, no
   NOT_FINISHED by ONGOING or UPCOMING), NOT_FINISHED is kept once derived, and
   the event eventually is NOT_FINISHED for good. *)
C30_ForwardOnly ==
  /\ [][\A st \in res.seen :
          (windowRank(st) > 0 /\ windowRank(ret') > 0)
             => windowRank(ret') >= windowRank(st)]_vars
  /\ [][ret = NOT_FINISHED => ret' = NOT_FINISHED]_vars
  /\ <>[](ret = NOT_FINISHED)

\* the event has been UPCOMING, then ONGOING, and is NOT_FINISHED
C30_Witness ==
  /\ ret = NOT_FINISHED
  /\ {UPCOMING, ONGOING} \subseteq res.seen
  /\ now > endOfDay(add(arg.fishStocking.eventTime, settings.maxTimeForRegistration))

====
